---- MODULE Spec2Model ----
(***************************************************************************)
(* The agent pipeline of NyayGuru: AgentContext and BaseAgent.execute      *)
(* (app/agents/base.py), the seven agents' process methods                 *)
(* (app/agents/*_agent.py) and the two execution modes of                  *)
(* AgentOrchestrator (app/agents/orchestrator.py).                         *)
(*                                                                         *)
(* One request is modelled.  req holds what the request and the external   *)
(* services contribute; ctx is the AgentContext object.  Python attributes *)
(* that __init__ does not create are modelled by the value Unset: reading  *)
(* one raises AttributeError.                                              *)
(***************************************************************************)
EXTENDS Integers, Sequences, FiniteSets, TLC

\* Largest number of direct calls of BaseAgent.execute on one context.
MaxCalls == 2

\* orchestrator.py:36-44, the order of self.agents
AgentOrder == <<"query", "statute", "case", "regulatory", "citation", "summary", "response">>

Agents == {AgentOrder[i] : i \in 1..Len(AgentOrder)}

\* A Python attribute that was never assigned (AttributeError on read).
Unset == "unset"

\* Python None.
None == "none"

\* A datetime field holding None.
NoTime == 0

VARIABLES
    req,        \* the request and the behaviour of the external services
    ctx,        \* the AgentContext of the request
    pc,         \* position of the entry point that drives the request
    idx,        \* position of the orchestrator loop in self.agents (1-based)
    events,     \* ChatStreamChunks yielded by process_query_streaming so far
    procLog,    \* agents whose process() was invoked, in invocation order
    clock,      \* logical datetime.now()
    cur,        \* agent inside execute() between its two add_agent_step calls
    calls,      \* number of direct execute() calls made so far
    cancelled   \* the consumer of the stream went away

vars == <<req, ctx, pc, idx, events, procLog, clock, cur, calls, cancelled>>

(***************************************************************************)
(* Inputs                                                                  *)
(***************************************************************************)

\* Outcomes of QueryUnderstandingAgent._detect_language that the Responder
\* distinguishes: English, Hindi, any other script.
Languages == {"en", "hi", "ta"}

\* domain argument of the request (None, the wildcard, a named domain) with
\* the answer of LLMRouter.verify_domain_match's model call ("error": the
\* call raised) and the outcome of the Responder's own second relevance check
\* (keyword check, then _verify_relevance_with_llm), which is only consulted
\* for a named domain that the gate accepted.
DomainInputs ==
    {[domain |-> None, verdict |-> "yes", recheck |-> TRUE],
     [domain |-> "all", verdict |-> "yes", recheck |-> TRUE],
     [domain |-> "traffic", verdict |-> "no", recheck |-> TRUE]}
    \cup {[domain |-> "traffic", verdict |-> v, recheck |-> k] :
                v \in {"yes", "error"}, k \in BOOLEAN}

\* State of the Generator (LLMService): a provider is configured and answers,
\* no provider is configured, or a provider is configured and its calls fail.
LlmStates == {"available", "unavailable", "failing"}

\* Stages whose process() raises on this request: none, or one of the seven.
FailSets == {{}} \cup {{a} : a \in Agents}

\* What the structured store and the vector index hold for the query.
StoreStates == {"hit", "empty"}

Requests(modes) ==
    {[mode |-> m, domain |-> d.domain, verdict |-> d.verdict,
      recheck |-> d.recheck, lang |-> l,
      llm |-> g, failing |-> f, store |-> s] :
        m \in modes, d \in DomainInputs, l \in Languages, g \in LlmStates,
        f \in FailSets, s \in StoreStates}

(***************************************************************************)
(* AgentContext                                                            *)
(***************************************************************************)

\* AgentContext.__init__: is_relevant and rejection_message are not created.
NewContext(r) ==
    [specified_domain |-> r.domain,
     detected_language |-> None,
     detected_domain |-> None,
     is_relevant |-> Unset,
     rejection_message |-> Unset,
     statutes |-> <<>>,
     case_laws |-> <<>>,
     citations |-> <<>>,
     ipc_bns_mappings |-> <<>>,
     jurisdiction |-> None,
     applicable_acts |-> {},
     response |-> None,
     response_hi |-> None,
     agent_steps |-> <<>>,
     errors |-> <<>>]

\* AgentProcessingStep built by add_agent_step (base.py:61-67).
NewStep(agent, status, t) ==
    [agent |-> agent,
     status |-> status,
     started_at |-> IF status = "processing" THEN t ELSE NoTime,
     completed_at |-> IF status = "completed" THEN t ELSE NoTime]

\* A faulty add_agent_step that appends whether or not the agent has a record;
\* C5_OneRecordPerStage is expected to reject it.
add_agent_step_appending(steps, agent, status, t) ==
    Append(steps, NewStep(agent, status, t))

\* A faulty add_error that records nothing; C4_ExecuteContainsFailure is
\* expected to reject it.
add_error_dropping(errors, agent, t) == errors

\* AgentContext.add_agent_step: replace the agent's record, else append.
add_agent_step(steps, agent, status, t) ==
    IF \E i \in 1..Len(steps) : steps[i].agent = agent
    THEN LET i == CHOOSE j \in 1..Len(steps) :
                    /\ steps[j].agent = agent
                    /\ \A k \in 1..(j - 1) : steps[k].agent # agent
         IN [steps EXCEPT ![i] = NewStep(agent, status, t)]
    ELSE Append(steps, NewStep(agent, status, t))

\* AgentContext.add_error
add_error(errors, agent, t) ==
    Append(errors, [agent |-> agent, error |-> "exception", timestamp |-> t])

(***************************************************************************)
(* The data the stores return                                              *)
(***************************************************************************)

\* LLMRouter.detect_domain's answer for the query (also the suggested domain
\* of a mismatch).
SuggestedDomain == "criminal"

StoreStatutes ==
    <<[id |-> "s1", act_code |-> "MVA", domain |-> "traffic", relevance_score |-> 0],
      [id |-> "s2", act_code |-> "IPC", domain |-> "criminal", relevance_score |-> 0]>>

StoreCases ==
    <<[id |-> "c1", case_name |-> "c1", domain |-> "traffic", is_landmark |-> FALSE,
       relevance_score |-> 0],
      [id |-> "c2", case_name |-> "c2", domain |-> "criminal", is_landmark |-> TRUE,
       relevance_score |-> 0]>>

StoreMappings == <<[id |-> "m1"]>>

\* the values of the members of LegalDomain (schemas.py:36-47)
LegalDomainValues ==
    {"criminal", "civil", "corporate", "it_cyber", "environmental", "labour",
     "financial", "constitutional", "family", "property", "other"}

\* the domain labels of LLMRouter.DOMAIN_MAP, which are the labels the
\* entries of JURISDICTION_ACTS are written for
DomainLabels ==
    {"criminal", "corporate", "civil_family", "it_cyber", "traffic", "property",
     "constitutional", "environment"}

\* JURISDICTION_ACTS as it is written, by the label each key stands for
JURISDICTION_ACTS ==
    [d \in DomainLabels |->
        CASE d = "criminal" -> {"IPC", "BNS", "CrPC", "BNSS", "IEA", "BSA"}
          [] d = "corporate" -> {"Companies Act", "SEBI Act", "IBC", "LLP Act",
                                 "Partnership Act", "Income Tax Act", "GST Act"}
          [] d = "it_cyber" -> {"IT Act", "DPDP Act", "Information Technology Act"}
          [] d = "environment" -> {"Environment Protection Act", "Wildlife Protection Act",
                                   "Forest Conservation Act", "Water Act", "Air Act",
                                   "NGT Act"}
          [] d = "civil_family" -> {"CPC", "Hindu Marriage Act", "Special Marriage Act",
                                    "Hindu Succession Act", "Indian Divorce Act",
                                    "Muslim Personal Law", "Domestic Violence Act",
                                    "Contract Act"}
          [] d = "property" -> {"Transfer of Property Act", "Registration Act", "Stamp Act",
                                "RERA", "Land Acquisition Act"}
          [] d = "constitutional" -> {"Constitution of India",
                                      "Representation of People Act", "RTI Act"}
          [] d = "traffic" -> {"Motor Vehicles Act", "Road Safety Rules"}]

\* JURISDICTION_ACTS.get(LegalDomain(domain), []): LegalDomain(domain) raises
\* ValueError for a label that is no member value, which both callers swallow
\* (query_agent.py:105-110, regulatory_agent.py:105-110).  ENVIRONMENT,
\* CIVIL_FAMILY and TRAFFIC are no members of LegalDomain, so no lookup
\* reaches the entries written for them; the table is taken as loaded with
\* the entries whose keys exist.
ActsOfDomain(domain) ==
    IF domain \in LegalDomainValues /\ domain \in DomainLabels
    THEN JURISDICTION_ACTS[domain] ELSE {}

(***************************************************************************)
(* Stage 1: QueryUnderstandingAgent.process                                *)
(***************************************************************************)

\* LLMRouter.detect_domain's answer for the query of request r
detect_domain(r) == IF "llm_domain" \in DOMAIN r THEN r.llm_domain ELSE SuggestedDomain

\* LLMRouter.verify_domain_match: (is_match, suggested_domain); a failing
\* model call counts as a match.
verify_domain_match(r) ==
    IF r.verdict = "no"
    THEN [is_match |-> FALSE, domain |-> detect_domain(r)]
    ELSE [is_match |-> TRUE, domain |-> r.domain]

\* the acts among IPC and BNS that IPC_PATTERN and BNS_PATTERN find in the
\* query; a request that does not say is taken to name none
MentionedActs(r) == IF "mentions" \in DOMAIN r THEN r.mentions ELSE {}

\* whether _extract_sections finds a section in the query
HasSections(r) == IF "sections" \in DOMAIN r THEN r.sections ELSE FALSE

\* query_agent.py:93-114, on the acts the context holds already
applicable_acts(c, r) ==
    LET named == c.applicable_acts \cup MentionedActs(r)
        by_domain == IF named = {} /\ c.detected_domain # None
                     THEN ActsOfDomain(c.detected_domain) ELSE named
    IN  IF by_domain = {} /\ HasSections(r) THEN {"IPC", "BNS"} ELSE by_domain

QueryProcess(c, r) ==
    LET c1 == [c EXCEPT !.detected_language = r.lang]
        WithActs(c2) == [c2 EXCEPT !.applicable_acts = applicable_acts(c2, r)]
    IN  IF "query" \in r.failing
        THEN \* OllamaService initialisation raises (query_agent.py:61-64)
             [ctx |-> c1, raised |-> TRUE]
        ELSE IF c.specified_domain # None /\ c.specified_domain # "all"
        THEN LET m == verify_domain_match(r)
             IN  IF ~m.is_match
                 THEN [ctx |-> WithActs([c1 EXCEPT !.detected_domain = m.domain,
                                                   !.is_relevant = "false",
                                                   !.rejection_message = "mismatch"]),
                       raised |-> FALSE]
                 ELSE [ctx |-> WithActs([c1 EXCEPT !.detected_domain = c.specified_domain,
                                                   !.is_relevant = "true"]),
                       raised |-> FALSE]
        ELSE [ctx |-> WithActs([c1 EXCEPT !.detected_domain = detect_domain(r),
                                          !.is_relevant = "true"]),
              raised |-> FALSE]

(***************************************************************************)
(* Stages 2 and 3: StatuteRetrievalAgent.process, CaseLawAgent.process     *)
(***************************************************************************)

Prefix(s, n) == SubSeq(s, 1, IF Len(s) < n THEN Len(s) ELSE n)

\* limit of the semantic statute search (statute_agent.py:92)
SemanticLimit == 5

\* limit of the document search (statute_agent.py:107)
DocumentLimit == 3

\* limit of the keyword search (statute_agent.py:131)
KeywordLimit == 5

\* Largest number of sections the structured store finds for the query.
MaxSectionHits == 2

\* Largest number of entries a collection or the structured store holds for
\* the query.
MaxStored == 6

\* rows of the structured store found by StatuteService.get_section
SectionHits(n) ==
    [i \in 1..n |-> [id |-> <<"db", i>>, act_code |-> "IPC", domain |-> "criminal",
                     relevance_score |-> 0]]

\* entries of the statutes collection, nearest first; their ids are
\* "<act_code>_<section_number>", never the row id of the structured store
CollectionHits(n) ==
    [i \in 1..n |-> [id |-> <<"vec", i>>, act_code |-> "IPC", domain |-> "criminal",
                     relevance_score |-> 0]]

\* Largest number of chunks of other domains that the legal_documents
\* collection holds for the query.
MaxOther == 2

\* the domain of the chunks that belong to another domain than the query
OtherDomain == "traffic"

\* chunks of the legal_documents collection for the query, nearest first:
\* n of the domain of the query, then m of another domain
LegalDocumentHits(n, m) ==
    [i \in 1..(n + m) |-> [id |-> <<"doc", i>>, source |-> "legal_document",
                           domain |-> IF i <= n THEN "criminal" ELSE OtherDomain]]

\* rows found by StatuteService.search_statutes
KeywordHits(n) ==
    [i \in 1..n |-> [id |-> <<"kw", i>>, act_code |-> "IPC", domain |-> "criminal",
                     relevance_score |-> 0]]

\* the where filter of a collection query: None for no domain and for "all"
WhereFilter(domain) == IF domain = None \/ domain = "all" THEN None ELSE domain

\* legal_documents_collection.query(n_results=limit, where=where_filter)
QueryLegalDocuments(q, where_filter, limit) ==
    LET all == LegalDocumentHits(q.n_documents, q.n_other)
    IN  Prefix(IF where_filter = None THEN all
               ELSE SelectSeq(all, LAMBDA x : x.domain = where_filter), limit)

\* VectorStoreService._search_legal_documents: the query with the domain
\* filter, and the query without it when that returned nothing or raised;
\* the BM25 re-ranking reorders the chunks and neither adds nor removes one
search_legal_documents(q, domain, limit) ==
    LET where_filter == WhereFilter(domain)
        filtered == IF where_filter # None /\ q.query_fails THEN <<>>
                    ELSE QueryLegalDocuments(q, where_filter, limit)
    IN  IF where_filter # None /\ filtered = <<>>
        THEN QueryLegalDocuments(q, None, limit)
        ELSE filtered

\* VectorStoreService.search_statutes: the statutes collection, and the
\* legal_documents collection when that gave nothing
vector_search_statutes(q, domain, limit) ==
    LET formatted == IF q.n_statutes > 0
                     THEN Prefix(CollectionHits(q.n_statutes), limit)
                     ELSE search_legal_documents(q, domain, limit)
    IN  Prefix(formatted, limit)

\* VectorStoreService.search_documents
search_documents(q, domain, limit) ==
    IF q.n_documents + q.n_other > 0
    THEN search_legal_documents(q, domain, limit) ELSE <<>>

\* statute_agent.py:80-84
DomainFilter(c) ==
    IF c.specified_domain # None /\ c.specified_domain # "all"
    THEN c.specified_domain ELSE c.detected_domain

\* what the stores return to StatuteRetrievalAgent.process for request r
StatuteSources(c, r) ==
    IF r.mode = "statutes"
    THEN [vector_store |-> r.vector_store,
          section_hits |-> SectionHits(r.n_sections),
          semantic_results |-> vector_search_statutes(r, DomainFilter(c), SemanticLimit),
          doc_results |-> search_documents(r, DomainFilter(c), DocumentLimit),
          keyword_results |-> Prefix(KeywordHits(r.n_keyword), KeywordLimit)]
    ELSE [vector_store |-> TRUE,
          section_hits |-> <<>>,
          semantic_results |-> IF r.store = "hit" THEN StoreStatutes ELSE <<>>,
          doc_results |-> <<>>,
          keyword_results |-> <<>>]

\* the record a document chunk is added as (statute_agent.py:116-122)
DocumentRecord(doc) == [id |-> doc.id, source |-> "document", domain |-> doc.domain]

\* StatuteRetrievalAgent.process, steps 1 to 3
retrieved_statutes(src) ==
    LET direct == src.section_hits
        existing_ids == {direct[i].id : i \in 1..Len(direct)}
        fresh(results) == SelectSeq(results, LAMBDA x : x.id \notin existing_ids)
        docs == fresh(src.doc_results)
        found == IF src.vector_store
                 THEN direct \o fresh(src.semantic_results)
                             \o [i \in 1..Len(docs) |-> DocumentRecord(docs[i])]
                 ELSE direct
    IN  IF found = <<>> THEN src.keyword_results ELSE found

\* _get_cross_mappings: the mapping of the IPC sections retrieved
cross_mappings(statutes) ==
    IF \E i \in 1..Len(statutes) :
            "act_code" \in DOMAIN statutes[i] /\ statutes[i].act_code = "IPC"
    THEN StoreMappings ELSE <<>>

StatuteProcess(c, r) ==
    IF "statute" \in r.failing
    THEN [ctx |-> c, raised |-> TRUE]
    ELSE LET statutes == retrieved_statutes(StatuteSources(c, r))
         IN  [ctx |-> [c EXCEPT !.statutes = statutes,
                                !.ipc_bns_mappings = cross_mappings(statutes)],
              raised |-> FALSE]

\* statute.get("section_number")
SectionOf(statute) ==
    IF "section_number" \in DOMAIN statute THEN statute.section_number ELSE None

\* number of leading statutes whose citing cases are looked up (case_agent.py:49)
TopStatutes == 3

\* size of context.case_laws is cut to this (case_agent.py:101)
CaseLimit == 5

\* case_agent.py:57-59: append each related case that is not in the list yet
RECURSIVE AppendNew(_, _)
AppendNew(case_laws, related) ==
    IF related = <<>> THEN case_laws
    ELSE LET x == Head(related)
             has == \E i \in 1..Len(case_laws) : case_laws[i] = x
         IN  AppendNew(IF has THEN case_laws ELSE Append(case_laws, x), Tail(related))

\* case_agent.py:48-60 over the first n of the leading statutes
RECURSIVE CitingCases(_, _, _)
CitingCases(statutes, n, by_section) ==
    IF n = 0 THEN <<>>
    ELSE LET before == CitingCases(statutes, n - 1, by_section)
             section == SectionOf(statutes[n])
         IN  IF section # None THEN AppendNew(before, by_section[section]) ELSE before

\* case_agent.py:63
SearchDomain(c) ==
    IF c.specified_domain # None /\ c.specified_domain # "all"
    THEN c.specified_domain ELSE c.detected_domain

\* the cases of a result list that are added: existing_ids is taken once,
\* before the loop (case_agent.py:82-85 and 95-98)
NotPresent_all(results, case_laws) == results

NotPresent(results, case_laws) ==
    LET existing_ids == {case_laws[i].id : i \in 1..Len(case_laws)}
    IN  SelectSeq(results, LAMBDA x : x.id \notin existing_ids)

\* what CaseService and the vector index return to CaseLawAgent.process
CaseSources(r) ==
    IF r.mode = "cases"
    THEN [vector_store |-> r.vector_store,
          by_section |-> r.by_section,
          domain_cases |-> r.domain_cases,
          landmark_cases |-> r.landmark_cases,
          semantic_cases |-> r.semantic_cases]
    ELSE [vector_store |-> TRUE,
          by_section |-> <<>>,
          domain_cases |-> <<>>,
          landmark_cases |-> <<>>,
          semantic_cases |-> IF r.store = "hit" THEN StoreCases ELSE <<>>]

\* CaseLawAgent.process, steps 1 to 4 and the cut
retrieved_cases(c, src) ==
    LET top == Prefix(c.statutes, TopStatutes)
        cited == CitingCases(top, Len(top), src.by_section)
        search_domain == SearchDomain(c)
        keyword == IF search_domain # None /\ cited = <<>>
                   THEN cited \o src.domain_cases ELSE cited
        landmark == keyword \o NotPresent(src.landmark_cases, keyword)
        semantic == IF src.vector_store
                    THEN landmark \o NotPresent(src.semantic_cases, landmark)
                    ELSE landmark
    IN  Prefix(semantic, CaseLimit)

CaseProcess(c, r) ==
    IF "case" \in r.failing
    THEN [ctx |-> c, raised |-> TRUE]
    ELSE [ctx |-> [c EXCEPT !.case_laws = retrieved_cases(c, CaseSources(r))],
          raised |-> FALSE]

(***************************************************************************)
(* Stage 4: RegulatoryFilterAgent.process                                  *)
(***************************************************************************)

\* statute.get("act_code", "")
ActCodeOf(s) == IF "act_code" \in DOMAIN s THEN s.act_code ELSE ""

\* x.get("domain", "")
DomainOf(x) == IF "domain" \in DOMAIN x THEN x.domain ELSE ""

\* act codes that contain "Companies"
CompaniesActs == {"Companies Act"}

\* _determine_domain
DetermineDomain(c) ==
    LET act_codes == {ActCodeOf(c.statutes[i]) : i \in 1..Len(c.statutes)}
    IN  IF c.detected_domain # None THEN c.detected_domain
        ELSE IF c.statutes # <<>> /\ act_codes \cap {"IPC", "BNS"} # {} THEN "criminal"
        ELSE IF c.statutes # <<>> /\ "IT" \in act_codes THEN "it_cyber"
        ELSE IF c.statutes # <<>> /\ act_codes \cap CompaniesActs # {} THEN "corporate"
        ELSE "criminal"

\* the score _filter_statutes_by_domain stores in statute["relevance_score"]
StatuteScore(s, domain) ==
    (IF DomainOf(s) = domain THEN 10 ELSE 0)
    + (IF ActCodeOf(s) \in ActsOfDomain(domain) THEN 5 ELSE 0)

\* the score _filter_cases_by_domain stores in case["relevance_score"]
CaseScore(k, domain) ==
    (IF DomainOf(k) = domain THEN 10 ELSE 0) + (IF k.is_landmark THEN 5 ELSE 0)

\* list.sort(key=relevance_score, reverse=True): stable, descending
RECURSIVE SortByScore(_)
SortByScore(items) ==
    IF Len(items) <= 1 THEN items
    ELSE LET n == Len(items)
             front == SortByScore(SubSeq(items, 1, n - 1))
             x == items[n]
             keep == {i \in 1..Len(front) : front[i].relevance_score >= x.relevance_score}
             at == Cardinality(keep)
         IN  SubSeq(front, 1, at) \o <<x>> \o SubSeq(front, at + 1, Len(front))

\* item["relevance_score"] = score
SetScore(item, score) ==
    [f \in DOMAIN item \cup {"relevance_score"} |->
        IF f = "relevance_score" THEN score ELSE item[f]]

\* _filter_statutes_by_domain
filter_statutes_by_domain(statutes, domain) ==
    SortByScore([i \in 1..Len(statutes) |->
                    SetScore(statutes[i], StatuteScore(statutes[i], domain))])

\* _filter_cases_by_domain
filter_cases_by_domain(cases, domain) ==
    SortByScore([i \in 1..Len(cases) |->
                    SetScore(cases[i], CaseScore(cases[i], domain))])

RegulatoryProcess(c, r) ==
    IF "regulatory" \in r.failing
    THEN [ctx |-> c, raised |-> TRUE]
    ELSE LET domain == DetermineDomain(c)
         IN  [ctx |-> [c EXCEPT !.jurisdiction = domain,
                                !.applicable_acts =
                                    IF domain \in LegalDomainValues
                                    THEN ActsOfDomain(domain) ELSE @,
                                !.statutes = filter_statutes_by_domain(@, domain),
                                !.case_laws = filter_cases_by_domain(@, domain)],
              raised |-> FALSE]

(***************************************************************************)
(* Stage 5: CitationAgent.process                                          *)
(***************************************************************************)

\* x.get(field, default)
Get(x, field, default) == IF field \in DOMAIN x THEN x[field] ELSE default

\* IPC_SECTION_DOCS.get(section, "")
IPC_SECTION_DOCS(section) ==
    CASE section = "302" -> "1560742"
      [] section = "304" -> "1279877"
      [] section = "307" -> "1290514"
      [] section = "376" -> "1279834"
      [] section = "420" -> "1436241"
      [] section = "498A" -> "110081"
      [] section = "354" -> "1279834"
      [] section = "306" -> "871857"
      [] section = "379" -> "1279854"
      [] section = "384" -> "1279782"
      [] section = "392" -> "1279793"
      [] section = "406" -> "1569253"
      [] section = "415" -> "1306487"
      [] section = "499" -> "1383364"
      [] section = "500" -> "1436475"
      [] section = "120B" -> "635852"
      [] section = "34" -> "37788"
      [] OTHER -> ""

\* the url of _create_statute_citation, as the tuple of the parts of the
\* string it formats
StatuteUrl(s) ==
    LET act_code == Get(s, "act_code", "IPC")
        section == Get(s, "section_number", "")
    IN  IF act_code = "IPC"
        THEN IF IPC_SECTION_DOCS(section) # ""
             THEN <<"doc", IPC_SECTION_DOCS(section)>>
             ELSE <<"search", "section", section, "IPC">>
        ELSE IF act_code = "BNS"
        THEN <<"search", "section", section, "BNS", "Bharatiya Nyaya Sanhita">>
        ELSE <<"search", act_code, "section", section>>

\* the url of _create_case_citation: source_url, or a search for the case
\* name and the court
CaseUrl(k) ==
    LET source_url == Get(k, "source_url", "")
        court == Get(k, "court", "")
    IN  IF source_url # "" THEN <<source_url>>
        ELSE IF court = "supreme_court"
        THEN <<"search", Get(k, "case_name", ""), "supreme court">>
        ELSE IF court = "high_court"
        THEN <<"search", Get(k, "case_name", ""), "high court">>
        ELSE <<"search", Get(k, "case_name", "")>>

\* the citations carry the number they were produced under ("id") and, in
\* place of title and excerpt, the item they were made of ("item")
StatuteCitation(s, citation_id) ==
    [id |-> citation_id, type |-> "statute", item |-> s.id, url |-> StatuteUrl(s)]

CaseCitation(k, citation_id) ==
    [id |-> citation_id, type |-> "case_law", item |-> k.id, url |-> CaseUrl(k)]

\* every mapping citation carries the same gazette URL (citation_agent.py:370)
MappingCitation(m, citation_id) ==
    [id |-> citation_id, type |-> "mapping", item |-> m.id,
     url |-> <<"https://egazette.gov.in/WriteReadData/2023/248044.pdf">>]

\* a de-duplication that keeps the last citation of each url
RECURSIVE Deduplicate_keeping_last(_)
Deduplicate_keeping_last(cits) ==
    IF cits = <<>> THEN <<>>
    ELSE LET front == Deduplicate_keeping_last(SubSeq(cits, 1, Len(cits) - 1))
         IN  Append(SelectSeq(front, LAMBDA x : x.url # cits[Len(cits)].url),
                    cits[Len(cits)])

\* _deduplicate_citations: keep the first citation of each url
RECURSIVE Deduplicate(_)
Deduplicate(cits) ==
    IF cits = <<>> THEN <<>>
    ELSE LET n == Len(cits)
             front == Deduplicate(SubSeq(cits, 1, n - 1))
         IN  IF \E i \in 1..Len(front) : front[i].url = cits[n].url
             THEN front
             ELSE Append(front, cits[n])

CitationProcess(c, r) ==
    IF "citation" \in r.failing
    THEN [ctx |-> c, raised |-> TRUE]
    ELSE LET ns == Len(c.statutes)
             nc == Len(c.case_laws)
             all == [i \in 1..ns |-> StatuteCitation(c.statutes[i], i)]
                    \o [i \in 1..nc |-> CaseCitation(c.case_laws[i], ns + i)]
                    \o [i \in 1..Len(c.ipc_bns_mappings) |->
                            MappingCitation(c.ipc_bns_mappings[i], ns + nc + i)]
         IN  [ctx |-> [c EXCEPT !.citations = Deduplicate(all)], raised |-> FALSE]

(***************************************************************************)
(* Stage 6: SummarizationAgent.process (no document is attached)           *)
(***************************************************************************)

SummaryProcess(c, r) ==
    IF "summary" \in r.failing
    THEN [ctx |-> c, raised |-> TRUE]
    ELSE [ctx |-> c, raised |-> FALSE]

(***************************************************************************)
(* Stage 7: ResponseSynthesisAgent.process                                 *)
(* Texts are named: "mismatch" is the gate's rejection message,            *)
(* "mismatch_hi" its Hindi translation, "llm" the Generator's answer,      *)
(* "fallback" the canned text of LLMService._generate_fallback_response,   *)
(* "template_en"/"template_hi" the two template renderings.                *)
(***************************************************************************)

\* _generate_template_response returns {"en", "hi"} and no "primary"
TemplateResponse == [en |-> "template_en", hi |-> "template_hi", primary |-> None]

\* texts that carry the note that AI-powered analysis is not available: the
\* two template renderings (response_agent.py:237-239) and the canned text of
\* LLMService._generate_fallback_response
NoticeTexts == {"template_en", "template_hi", "fallback"}

\* texts that end with a legal disclaimer (DISCLAIMER_EN, DISCLAIMER_HI, and
\* the last line of the canned text)
DisclaimerTexts == {"template_en", "template_hi", "fallback"}

\* the language a text is written in; the Generator's answer to the user
\* prompt ("llm") is in whatever language the Generator chose
TextLanguage(text) ==
    CASE text \in {"template_hi", "mismatch_hi", "no_connection_hi", "llm_hi"} -> "hi"
      [] text \in {"template_en", "mismatch", "no_connection", "llm_en",
                   "fallback"} -> "en"
      [] OTHER -> "any"

\* LLMService.generate / generate_chat: the provider's answer, or the canned
\* text of _generate_fallback_response when the provider call fails; neither
\* raises
Generate(answer, r) == IF r.llm = "available" THEN answer ELSE "fallback"

\* the Generator's Hindi rendering of a text
Hindi(text) ==
    CASE text = "mismatch" -> "mismatch_hi"
      [] text = "no_connection" -> "no_connection_hi"
      [] OTHER -> "llm_hi"

\* _translate_to_hindi
TranslateToHindi(text, r) == Generate(Hindi(text), r)

\* _generate_llm_response; every exception in it ends in the template
GenerateLlmResponse(c, r) ==
    IF c.is_relevant = Unset \/ c.rejection_message = Unset
    THEN \* AttributeError at response_agent.py:72 or :73
         TemplateResponse
    ELSE LET is_relevant ==
                 IF c.is_relevant = "true" /\ c.specified_domain # None
                    /\ c.specified_domain # "all"
                 THEN r.recheck
                 ELSE c.is_relevant = "true"
             rejection_message ==
                 IF c.is_relevant = "true" /\ ~is_relevant
                 THEN "no_connection" ELSE c.rejection_message
             response_language ==
                 IF c.detected_language = None THEN "en" ELSE c.detected_language
         IN  IF ~is_relevant
             THEN LET hi == IF c.detected_language = "hi"
                            THEN TranslateToHindi(rejection_message, r)
                            ELSE rejection_message
                  IN  [en |-> rejection_message, hi |-> hi,
                       primary |-> IF c.detected_language = "hi"
                                   THEN hi ELSE rejection_message]
             ELSE LET primary == Generate("llm", r)
                  IN  [en |-> IF response_language = "en"
                              THEN primary ELSE Generate("llm_en", r),
                       hi |-> IF response_language # "hi"
                              THEN Generate("llm_hi", r) ELSE primary,
                       primary |-> primary]

ResponseProcess(c, r) ==
    IF "response" \in r.failing
    THEN [ctx |-> c, raised |-> TRUE]
    ELSE LET response == IF r.llm # "unavailable"
                         THEN GenerateLlmResponse(c, r)
                         ELSE TemplateResponse
         IN  [ctx |-> [c EXCEPT
                        !.response = IF response.primary # None
                                     THEN response.primary ELSE response.en,
                        !.response_hi = response.hi],
              raised |-> FALSE]

\* agent.process(context), by agent type
Process(a, c, r) ==
    CASE a = "query" -> QueryProcess(c, r)
      [] a = "statute" -> StatuteProcess(c, r)
      [] a = "case" -> CaseProcess(c, r)
      [] a = "regulatory" -> RegulatoryProcess(c, r)
      [] a = "citation" -> CitationProcess(c, r)
      [] a = "summary" -> SummaryProcess(c, r)
      [] a = "response" -> ResponseProcess(c, r)

(***************************************************************************)
(* BaseAgent.execute                                                       *)
(***************************************************************************)

\* execute up to the call of process: the record is marked processing
ExecuteStart(c, a, t) ==
    [c EXCEPT !.agent_steps = add_agent_step(c.agent_steps, a, "processing", t)]

\* execute from the call of process on: completed, or error plus add_error
ExecuteFinish(c, a, r, t) ==
    LET res == Process(a, c, r)
    IN  IF res.raised
        THEN [res.ctx EXCEPT
                !.agent_steps = add_agent_step(res.ctx.agent_steps, a, "error", t),
                !.errors = add_error(res.ctx.errors, a, t)]
        ELSE [res.ctx EXCEPT
                !.agent_steps = add_agent_step(res.ctx.agent_steps, a, "completed", t)]

\* the whole of execute; it never raises
Execute(c, a, r, t) == ExecuteFinish(ExecuteStart(c, a, t), a, r, t + 1)

(***************************************************************************)
(* AgentOrchestrator                                                       *)
(***************************************************************************)

\* `if not context.is_relevant and agent.agent_type != AgentType.RESPONSE`
\* (orchestrator.py:104 and :159).  The attribute is read first; on a context
\* on which no agent has assigned it the read raises AttributeError, outside
\* the try block that surrounds agent.execute.
RelevanceGuard(c, a) ==
    IF c.is_relevant = Unset THEN "raise"
    ELSE IF c.is_relevant = "false" /\ a # "response" THEN "skip"
    ELSE "run"

Chunk(type, agent, status) == [type |-> type, agent |-> agent, status |-> status]

\* the chunk yielded before the loop
StartChunks == <<Chunk("start", None, None)>>

\* the chunk yielded at the top of each iteration
RunningChunks(a) == <<Chunk("agent_status", a, "processing")>>

\* the chunks yielded after agent.execute returned: completion, then the
\* snapshot of the list the agent fills when that list is not empty
StageChunks(a, c) ==
    <<Chunk("agent_status", a, "completed")>>
    \o (IF a = "statute" /\ c.statutes # <<>>
        THEN <<Chunk("statutes", None, None)>> ELSE <<>>)
    \o (IF a = "case" /\ c.case_laws # <<>>
        THEN <<Chunk("case_laws", None, None)>> ELSE <<>>)
    \o (IF a = "citation" /\ c.citations # <<>>
        THEN <<Chunk("citations", None, None)>> ELSE <<>>)

\* the two chunks yielded after the loop
FinalChunks == <<Chunk("response", None, None), Chunk("complete", None, None)>>

InitFor(modes) ==
    /\ req \in Requests(modes)
    /\ ctx = NewContext(req)
    /\ pc = "start"
    /\ idx = 1
    /\ events = <<>>
    /\ procLog = <<>>
    /\ clock = 1
    /\ cur = None
    /\ calls = 0
    /\ cancelled = FALSE

\* process_query up to the loop: the context is created
UnaryBegin ==
    /\ req.mode = "unary"
    /\ pc = "start"
    /\ ctx' = NewContext(req)
    /\ pc' = "loop"
    /\ UNCHANGED <<req, idx, events, procLog, clock, cur, calls, cancelled>>

\* process_query: one iteration of `for agent in self.agents`, or, after the
\* last one, _build_response and return
UnaryStep ==
    /\ req.mode = "unary"
    /\ pc = "loop"
    /\ IF idx > Len(AgentOrder)
       THEN /\ pc' = "done"
            /\ UNCHANGED <<ctx, idx, procLog, clock>>
       ELSE LET a == AgentOrder[idx]
                g == RelevanceGuard(ctx, a)
            IN  IF g = "raise"
                THEN /\ pc' = "raised"
                     /\ UNCHANGED <<ctx, idx, procLog, clock>>
                ELSE IF g = "skip"
                THEN /\ idx' = idx + 1
                     /\ UNCHANGED <<ctx, pc, procLog, clock>>
                ELSE /\ ctx' = Execute(ctx, a, req, clock)
                     /\ procLog' = Append(procLog, a)
                     /\ clock' = clock + 2
                     /\ idx' = idx + 1
                     /\ pc' = pc
    /\ UNCHANGED <<req, events, cur, calls, cancelled>>

\* process_query_streaming up to the loop: the context is created and the
\* start chunk is yielded
StreamBegin ==
    /\ req.mode = "stream"
    /\ pc = "start"
    /\ ctx' = NewContext(req)
    /\ events' = events \o StartChunks
    /\ pc' = "loop"
    /\ UNCHANGED <<req, idx, procLog, clock, cur, calls, cancelled>>

\* process_query_streaming: the top of an iteration yields the agent's
\* processing status; after the last iteration response and complete are
\* yielded
StreamYield ==
    /\ req.mode = "stream"
    /\ pc = "loop"
    /\ IF idx > Len(AgentOrder)
       THEN /\ events' = events \o FinalChunks
            /\ pc' = "done"
       ELSE /\ events' = events \o RunningChunks(AgentOrder[idx])
            /\ pc' = "body"
    /\ UNCHANGED <<req, ctx, idx, procLog, clock, cur, calls, cancelled>>

\* process_query_streaming: the rest of an iteration
StreamStage ==
    /\ req.mode = "stream"
    /\ pc = "body"
    /\ LET a == AgentOrder[idx]
           g == RelevanceGuard(ctx, a)
       IN  IF g = "raise"
           THEN /\ pc' = "raised"
                /\ UNCHANGED <<ctx, idx, events, procLog, clock>>
           ELSE IF g = "skip"
           THEN /\ idx' = idx + 1
                /\ pc' = "loop"
                /\ UNCHANGED <<ctx, events, procLog, clock>>
           ELSE /\ ctx' = Execute(ctx, a, req, clock)
                /\ events' = events \o StageChunks(a, ctx')
                /\ procLog' = Append(procLog, a)
                /\ clock' = clock + 2
                /\ idx' = idx + 1
                /\ pc' = "loop"
    /\ UNCHANGED <<req, cur, calls, cancelled>>

\* what is left of the generator once its consumer is gone: the task is
\* cancelled at the yield or await it is suspended in; no handler in
\* process_query_streaming or in the route catches that
AfterCancel == "closed"

\* the consumer of the stream disconnects while the generator is suspended
Cancel ==
    /\ req.mode = "stream"
    /\ pc \in {"loop", "body"}
    /\ ~cancelled
    /\ cancelled' = TRUE
    /\ pc' = AfterCancel
    /\ UNCHANGED <<req, ctx, idx, events, procLog, clock, cur, calls>>

Init == InitFor({"unary", "stream"})

Next ==
    \/ UnaryBegin
    \/ UnaryStep
    \/ StreamBegin
    \/ StreamYield
    \/ StreamStage
    \/ Cancel

Spec == Init /\ [][Next]_vars

(***************************************************************************)
(* The stage interface used directly: execute() called on one context,     *)
(* any agent, any order, at most MaxCalls times.                           *)
(***************************************************************************)

StageStart(a) ==
    /\ req.mode = "stages"
    /\ cur = None
    /\ calls < MaxCalls
    /\ ctx' = ExecuteStart(ctx, a, clock)
    /\ cur' = a
    /\ calls' = calls + 1
    /\ clock' = clock + 1
    /\ UNCHANGED <<req, pc, idx, events, procLog, cancelled>>

StageFinish ==
    /\ req.mode = "stages"
    /\ cur # None
    /\ ctx' = ExecuteFinish(ctx, cur, req, clock)
    /\ procLog' = Append(procLog, cur)
    /\ cur' = None
    /\ clock' = clock + 1
    /\ UNCHANGED <<req, pc, idx, events, calls, cancelled>>

StageInit == InitFor({"stages"})

StageNext == (\E a \in Agents : StageStart(a)) \/ StageFinish

StageSpec == StageInit /\ [][StageNext]_vars

(***************************************************************************)
(* The domain gate, with the fused domain scores of the query              *)
(* Scores are in hundredths.                                               *)
(***************************************************************************)

\* fused scores BM25DomainClassifier.classify can give a domain
ScoreValues == {0, 8, 12, 18, 22, 30, 50}

\* the "sticky domain" rule of RetrieverService._handle_document_search:
\* is_match or is_close or is_strong
AcceptByScores(predicted_domain, category, selected_score, top_score) ==
    \/ predicted_domain = category
    \/ 2 * selected_score > top_score /\ selected_score > 10
    \/ selected_score > 20

\* Requests with a named domain, together with what classify returns for the
\* query: the predicted domain, its score (the largest), and the score of the
\* named domain.
GateRequests ==
    {q \in {[mode |-> "gate", domain |-> "traffic", verdict |-> v, recheck |-> TRUE,
             lang |-> l, llm |-> "available", failing |-> f, store |-> "empty",
             predicted_domain |-> p, confidence |-> t, selected_score |-> s] :
                v \in {"yes", "no", "error"}, l \in Languages,
                f \in {{}, {"query"}}, p \in {"traffic", "criminal"},
                t \in ScoreValues, s \in ScoreValues} :
        /\ q.selected_score <= q.confidence
        /\ q.predicted_domain = q.domain => q.selected_score = q.confidence}

GateInit ==
    /\ req \in GateRequests
    /\ ctx = NewContext(req)
    /\ pc = "start"
    /\ idx = 1
    /\ events = <<>>
    /\ procLog = <<>>
    /\ clock = 1
    /\ cur = None
    /\ calls = 0
    /\ cancelled = FALSE

\* QueryUnderstandingAgent.execute on the fresh context
GateAnalyze ==
    /\ req.mode = "gate"
    /\ pc = "start"
    /\ ctx' = Execute(ctx, "query", req, clock)
    /\ procLog' = Append(procLog, "query")
    /\ clock' = clock + 2
    /\ pc' = "done"
    /\ UNCHANGED <<req, idx, events, cur, calls, cancelled>>

GateNext == GateAnalyze

GateSpec == GateInit /\ [][GateNext]_vars

(***************************************************************************)
(* HybridSearchService.hybrid_search                                       *)
(* A hit is [content, score]; the dense and the sparse list arrive sorted  *)
(* by their raw score, best first.  Raw scores are drawn from two values,  *)
(* so that a normalised score is 0 or 1, and hybrid scores are counted in  *)
(* units of the (equal) weights of the two lists.                          *)
(***************************************************************************)

\* Largest number of hits either retriever returns.
MaxHits == 2

\* content keys of the indexed documents
Docs == {"d1", "d2", "d3"}

RawScores == {1, 2}

\* result lists of search_vector / search_bm25
HitLists ==
    {h \in UNION {[1..n -> [content : Docs, score : RawScores]] : n \in 0..MaxHits} :
        \A i \in 1..(Len(h) - 1) : h[i].score >= h[i + 1].score}

\* scores the cross-encoder can give the documents
RerankScores ==
    {("d1" :> 0 @@ "d2" :> 2 @@ "d3" :> 2),
     ("d1" :> 2 @@ "d2" :> 1 @@ "d3" :> 1),
     ("d1" :> 1 @@ "d2" :> 0 @@ "d3" :> 2)}

\* use_reranking is off or no reranker is attached ("off"), the model is not
\* loaded ("unloaded"), compute_score raises ("failing"), or it scores ("on")
RerankerStates == {"off", "unloaded", "failing", "on"}

SearchRequests ==
    {q \in [mode : {"search"}, dense : HitLists, sparse : HitLists,
            n_results : {1, 2}, rerank_threshold : {1},
            reranker : RerankerStates, rerank_score : RerankScores] :
        q.reranker # "on" => q.rerank_score = ("d1" :> 0 @@ "d2" :> 2 @@ "d3" :> 2)}

\* normalize_scores: min-max normalisation, 1 when all scores are equal
Normalized(hits, i) ==
    LET scores == {hits[j].score : j \in 1..Len(hits)}
        max_score == CHOOSE x \in scores : \A y \in scores : y <= x
        min_score == CHOOSE x \in scores : \A y \in scores : x <= y
    IN  IF max_score > min_score
        THEN (hits[i].score - min_score) \div (max_score - min_score)
        ELSE 1

\* position of a content key in a list of records with a content field, 0 if absent
IndexOf(list, content) ==
    IF \E i \in 1..Len(list) : list[i].content = content
    THEN CHOOSE i \in 1..Len(list) :
            /\ list[i].content = content
            /\ \A j \in 1..(i - 1) : list[j].content # content
    ELSE 0

\* merged_dict after the loop over vector_results, as its values in key order
RECURSIVE AddVector(_, _)
AddVector(hits, n) ==
    IF n = 0 THEN <<>>
    ELSE LET m == AddVector(hits, n - 1)
             doc == [content |-> hits[n].content,
                     hybrid_score |-> Normalized(hits, n),
                     source |-> "vector"]
             at == IndexOf(m, doc.content)
         IN  IF at = 0 THEN Append(m, doc) ELSE [m EXCEPT ![at] = doc]

\* merged_dict after the loop over bm25_results, started from m0
RECURSIVE AddBm25(_, _, _)
AddBm25(m0, hits, n) ==
    IF n = 0 THEN m0
    ELSE LET m == AddBm25(m0, hits, n - 1)
             at == IndexOf(m, hits[n].content)
         IN  IF at # 0
             THEN [m EXCEPT ![at].hybrid_score = @ + Normalized(hits, n),
                            ![at].source = "hybrid"]
             ELSE Append(m, [content |-> hits[n].content,
                             hybrid_score |-> Normalized(hits, n),
                             source |-> "bm25"])

\* A sort that leaves the list as it is; C18_FusedList is expected to reject it.
SortByHybridScore_unsorted(items) == items

\* merged.sort(key=hybrid_score, reverse=True): stable, descending
RECURSIVE SortByHybridScore(_)
SortByHybridScore(items) ==
    IF Len(items) <= 1 THEN items
    ELSE LET n == Len(items)
             front == SortByHybridScore(SubSeq(items, 1, n - 1))
             x == items[n]
             at == Cardinality({i \in 1..Len(front) :
                                    front[i].hybrid_score >= x.hybrid_score})
         IN  SubSeq(front, 1, at) \o <<x>> \o SubSeq(front, at + 1, Len(front))

\* _merge_results
merge_results(vector_results, bm25_results) ==
    SortByHybridScore(AddBm25(AddVector(vector_results, Len(vector_results)),
                              bm25_results, Len(bm25_results)))

\* A sort that leaves the list as it is; C17_RerankOrder is expected to reject it.
SortByRerankScore_unsorted(items) == items

\* filtered_docs.sort(key=rerank_score, reverse=True): stable, descending
RECURSIVE SortByRerankScore(_)
SortByRerankScore(items) ==
    IF Len(items) <= 1 THEN items
    ELSE LET n == Len(items)
             front == SortByRerankScore(SubSeq(items, 1, n - 1))
             x == items[n]
             at == Cardinality({i \in 1..Len(front) :
                                    front[i].rerank_score >= x.rerank_score})
         IN  SubSeq(front, 1, at) \o <<x>> \o SubSeq(front, at + 1, Len(front))

\* RerankerService.rerank
rerank(documents, q) ==
    IF documents = <<>> THEN <<>>
    ELSE IF q.reranker # "on"
    THEN \* no model, or the except branch: the original order
         Prefix(documents, q.n_results)
    ELSE LET scored == [i \in 1..Len(documents) |->
                            [content |-> documents[i].content,
                             hybrid_score |-> documents[i].hybrid_score,
                             source |-> documents[i].source,
                             rerank_score |-> q.rerank_score[documents[i].content]]]
             filtered_docs == SelectSeq(scored,
                                LAMBDA d : d.rerank_score >= q.rerank_threshold)
         IN  Prefix(SortByRerankScore(filtered_docs), q.n_results)

\* A search that does not cut its results to n_results; C16_TopK is expected
\* to reject it.
hybrid_search_uncut(merged, q) == rerank(merged, [q EXCEPT !.n_results = Len(merged)])

\* hybrid_search, step 3
hybrid_search(merged, q) ==
    IF q.reranker # "off"
    THEN rerank(merged, q)
    ELSE Prefix(merged, q.n_results)

SearchInit ==
    /\ req \in SearchRequests
    /\ ctx = [merged |-> <<>>, results |-> <<>>]
    /\ pc = "start"
    /\ idx = 1
    /\ events = <<>>
    /\ procLog = <<>>
    /\ clock = 1
    /\ cur = None
    /\ calls = 0
    /\ cancelled = FALSE

\* hybrid_search, steps 1 and 2: both retrievers, and the merge
SearchMerge ==
    /\ req.mode = "search"
    /\ pc = "start"
    /\ ctx' = [ctx EXCEPT !.merged = merge_results(req.dense, req.sparse)]
    /\ pc' = "merged"
    /\ UNCHANGED <<req, idx, events, procLog, clock, cur, calls, cancelled>>

\* hybrid_search, step 3: re-rank or cut, and return
SearchRank ==
    /\ req.mode = "search"
    /\ pc = "merged"
    /\ ctx' = [ctx EXCEPT !.results = hybrid_search(ctx.merged, req)]
    /\ pc' = "done"
    /\ UNCHANGED <<req, idx, events, procLog, clock, cur, calls, cancelled>>

SearchNext == SearchMerge \/ SearchRank

SearchSpec == SearchInit /\ [][SearchNext]_vars

(***************************************************************************)
(* StatuteRetrievalAgent.process on its own, over what the stores hold     *)
(***************************************************************************)

StatuteRequests ==
    [mode : {"statutes"}, domain : {None}, verdict : {"yes"}, recheck : {TRUE},
     lang : {"en"}, llm : {"available"}, failing : {{}, {"statute"}},
     store : {"hit"}, vector_store : BOOLEAN,
     n_sections : 0..MaxSectionHits, n_statutes : 0..MaxStored,
     n_documents : 0..MaxStored, n_keyword : 0..MaxStored,
     n_other : 0..MaxOther, query_fails : BOOLEAN, detected : {None, "criminal"}]

StatuteInit ==
    /\ req \in StatuteRequests
    /\ ctx = [NewContext(req) EXCEPT !.detected_domain = req.detected]
    /\ pc = "start"
    /\ idx = 1
    /\ events = <<>>
    /\ procLog = <<>>
    /\ clock = 1
    /\ cur = None
    /\ calls = 0
    /\ cancelled = FALSE

\* StatuteRetrievalAgent.execute on the context
StatuteRun ==
    /\ req.mode = "statutes"
    /\ pc = "start"
    /\ ctx' = Execute(ctx, "statute", req, clock)
    /\ procLog' = Append(procLog, "statute")
    /\ clock' = clock + 2
    /\ pc' = "done"
    /\ UNCHANGED <<req, idx, events, cur, calls, cancelled>>

StatuteNext == StatuteRun

StatuteSpec == StatuteInit /\ [][StatuteNext]_vars

(***************************************************************************)
(* CaseLawAgent.process on its own, over what the stores hold              *)
(***************************************************************************)

\* Largest number of statutes in the context when CaseLawAgent runs.
MaxCaseStatutes == 4

Sections == {"302", "420"}

\* a row of the case_laws table as CaseService._case_to_dict returns it; the
\* row id is an integer
CaseRow(n, landmark) ==
    [id |-> <<"int", n>>, domain |-> "criminal", is_landmark |-> landmark,
     relevance_score |-> 0]

\* an entry of the cases collection as VectorStoreService.search_cases returns
\* it; its id is the string add_cases made of the row id (vector_store.py:165)
CaseEntry(n, landmark) ==
    [id |-> <<"str", n>>, domain |-> "criminal", is_landmark |-> landmark,
     relevance_score |-> 0]

\* a statute of the context whose section_number is sec (None: it has none)
CaseStatute(i, sec) ==
    [id |-> <<"db", i>>, act_code |-> "IPC", domain |-> "criminal",
     relevance_score |-> 0, section_number |-> sec]

CaseStatuteLists ==
    UNION {{[i \in 1..n |-> CaseStatute(i, f[i])] :
                f \in [1..n -> Sections \cup {None}]} : n \in 0..MaxCaseStatutes}

\* get_cases_by_section(section, limit=2) for each section
CitingAnswers ==
    {[s \in Sections |-> IF s = "302" THEN a ELSE b] :
        a \in {<<>>, <<CaseRow(1, TRUE), CaseRow(2, FALSE)>>},
        b \in {<<>>, <<CaseRow(1, TRUE)>>, <<CaseRow(2, FALSE), CaseRow(3, FALSE)>>}}

\* request domain and detected domain
CaseDomains ==
    {[domain |-> None, detected |-> None],
     [domain |-> "all", detected |-> "criminal"],
     [domain |-> "criminal", detected |-> None]}

CaseRequests ==
    {[mode |-> "cases", domain |-> d.domain, detected |-> d.detected,
      verdict |-> "yes", recheck |-> TRUE, lang |-> "en", llm |-> "available",
      failing |-> {}, store |-> "hit", vector_store |-> v, statutes |-> st,
      by_section |-> by, domain_cases |-> kw, landmark_cases |-> lm,
      semantic_cases |-> sem] :
        d \in CaseDomains, v \in BOOLEAN, st \in CaseStatuteLists,
        by \in CitingAnswers,
        kw \in {<<>>, <<CaseRow(4, FALSE)>>},
        lm \in {<<>>, <<CaseRow(1, TRUE), CaseRow(5, TRUE)>>},
        sem \in {<<>>, <<CaseEntry(1, TRUE)>>,
                 <<CaseEntry(6, FALSE), CaseEntry(7, FALSE)>>}}

CaseInit ==
    /\ req \in CaseRequests
    /\ ctx = [NewContext(req) EXCEPT !.statutes = req.statutes,
                                     !.detected_domain = req.detected]
    /\ pc = "start"
    /\ idx = 1
    /\ events = <<>>
    /\ procLog = <<>>
    /\ clock = 1
    /\ cur = None
    /\ calls = 0
    /\ cancelled = FALSE

\* CaseLawAgent.execute on the context
CaseRun ==
    /\ req.mode = "cases"
    /\ pc = "start"
    /\ ctx' = Execute(ctx, "case", req, clock)
    /\ procLog' = Append(procLog, "case")
    /\ clock' = clock + 2
    /\ pc' = "done"
    /\ UNCHANGED <<req, idx, events, cur, calls, cancelled>>

CaseNext == CaseRun

CaseSpec == CaseInit /\ [][CaseNext]_vars

(***************************************************************************)
(* RegulatoryFilterAgent.process on its own, over the lists it is given    *)
(***************************************************************************)

\* Largest number of statutes, and of cases, in the context.
MaxRegItems == 3

\* domain and act_code of the statutes the filter is given
StatuteKinds ==
    {[domain |-> "criminal", act_code |-> "IPC"],
     [domain |-> "traffic", act_code |-> "Motor Vehicles Act"],
     [domain |-> "traffic", act_code |-> "Central Motor Vehicles Rules"]}

\* domain and is_landmark of the cases the filter is given
CaseKinds ==
    {[domain |-> "criminal", is_landmark |-> TRUE],
     [domain |-> "criminal", is_landmark |-> FALSE],
     [domain |-> "traffic", is_landmark |-> TRUE]}

\* the lists of the context; the id of a record is its place in the list
RegStatuteLists ==
    UNION {{[i \in 1..n |-> [id |-> i, domain |-> f[i].domain,
                             act_code |-> f[i].act_code]] :
                f \in [1..n -> StatuteKinds]} : n \in 0..MaxRegItems}

RegCaseLists ==
    UNION {{[i \in 1..n |-> [id |-> i, domain |-> f[i].domain,
                             is_landmark |-> f[i].is_landmark]] :
                f \in [1..n -> CaseKinds]} : n \in 0..MaxRegItems}

RegRequests ==
    [mode : {"regulatory"}, domain : {None}, verdict : {"yes"}, recheck : {TRUE},
     lang : {"en"}, llm : {"available"}, failing : {{}}, store : {"hit"},
     detected : {None, "criminal", "traffic"},
     statutes : RegStatuteLists, case_laws : RegCaseLists]

RegInit ==
    /\ req \in RegRequests
    /\ ctx = [NewContext(req) EXCEPT !.statutes = req.statutes,
                                     !.case_laws = req.case_laws,
                                     !.detected_domain = req.detected]
    /\ pc = "start"
    /\ idx = 1
    /\ events = <<>>
    /\ procLog = <<>>
    /\ clock = 1
    /\ cur = None
    /\ calls = 0
    /\ cancelled = FALSE

\* RegulatoryFilterAgent.execute on the context
RegRun ==
    /\ req.mode = "regulatory"
    /\ pc = "start"
    /\ ctx' = Execute(ctx, "regulatory", req, clock)
    /\ procLog' = Append(procLog, "regulatory")
    /\ clock' = clock + 2
    /\ pc' = "done"
    /\ UNCHANGED <<req, idx, events, cur, calls, cancelled>>

RegNext == RegRun

RegSpec == RegInit /\ [][RegNext]_vars

(***************************************************************************)
(* CitationAgent.process on its own, over the lists it is given            *)
(***************************************************************************)

\* Largest number of statutes, of cases and of mappings in the context.
MaxCited == 2

\* act_code and section_number of the statutes cited; the last kind is a
\* document chunk, which has neither (statute_agent.py:116-122)
CitedStatuteKinds ==
    {[act_code |-> "IPC", section_number |-> "376"],
     [act_code |-> "IPC", section_number |-> "354"],
     [act_code |-> "IPC", section_number |-> "323"],
     [act_code |-> "BNS", section_number |-> "103"],
     [source |-> "document"]}

\* source_url, case_name and court of the cases cited; an entry of the cases
\* collection has no source_url
CitedCaseKinds ==
    {[source_url |-> "https://main.sci.gov.in/j1", case_name |-> "State v A",
      court |-> "supreme_court"],
     [source_url |-> "", case_name |-> "State v A", court |-> "supreme_court"],
     [case_name |-> "State v A", court |-> "high_court"]}

CitedMappingKinds ==
    {[ipc_section |-> "302", bns_section |-> "103"],
     [ipc_section |-> "420", bns_section |-> "318"]}

\* item with the field id set to i
WithId(item, i) ==
    [f \in DOMAIN item \cup {"id"} |-> IF f = "id" THEN i ELSE item[f]]

\* the lists over a set of kinds; the id of a record is its place in the list
ListsOver(kinds) ==
    UNION {{[i \in 1..n |-> WithId(f[i], i)] : f \in [1..n -> kinds]} :
                n \in 0..MaxCited}

CiteRequests ==
    [mode : {"citations"}, domain : {None}, verdict : {"yes"}, recheck : {TRUE},
     lang : {"en"}, llm : {"available"}, failing : {{}, {"citation"}},
     store : {"hit"},
     statutes : ListsOver(CitedStatuteKinds), case_laws : ListsOver(CitedCaseKinds),
     ipc_bns_mappings : ListsOver(CitedMappingKinds)]

CiteInit ==
    /\ req \in CiteRequests
    /\ ctx = [NewContext(req) EXCEPT !.statutes = req.statutes,
                                     !.case_laws = req.case_laws,
                                     !.ipc_bns_mappings = req.ipc_bns_mappings]
    /\ pc = "start"
    /\ idx = 1
    /\ events = <<>>
    /\ procLog = <<>>
    /\ clock = 1
    /\ cur = None
    /\ calls = 0
    /\ cancelled = FALSE

\* CitationAgent.execute on the context
CiteRun ==
    /\ req.mode = "citations"
    /\ pc = "start"
    /\ ctx' = Execute(ctx, "citation", req, clock)
    /\ procLog' = Append(procLog, "citation")
    /\ clock' = clock + 2
    /\ pc' = "done"
    /\ UNCHANGED <<req, idx, events, cur, calls, cancelled>>

CiteNext == CiteRun

CiteSpec == CiteInit /\ [][CiteNext]_vars

(***************************************************************************)
(* HybridSearchService.search_bm25 over an indexed corpus                  *)
(***************************************************************************)

\* Largest number of documents in the BM25 index.
MaxCorpus == 4

\* BM25 scores of the documents for the query
Bm25Scores == {1, 2, 3}

CorpusDomains == {"criminal", "traffic"}

\* self.bm25_documents with self.bm25_index.get_scores(query_tokens): the
\* document at index i, its metadata.domain and its score
Corpora ==
    UNION {[1..k -> [domain : CorpusDomains, score : Bm25Scores]] : k \in 0..MaxCorpus}

\* np.argsort(scores)[::-1]: the indices in descending order of score; the
\* order of indices with equal scores is left to the sort
ArgsortDescending(corpus) ==
    {order \in [1..Len(corpus) -> 1..Len(corpus)] :
        /\ \A i, j \in 1..Len(corpus) : order[i] = order[j] => i = j
        /\ \A i, j \in 1..Len(corpus) :
             i < j => corpus[order[i]].score >= corpus[order[j]].score}

Bm25Requests ==
    [mode : {"bm25"}, corpus : Corpora, n_results : {1, 2},
     domain_filter : {None, "criminal"}]

\* search_bm25 from the sorted indices on
search_bm25(order, q) ==
    LET top_indices == Prefix(order, q.n_results * 2)
        kept == SelectSeq(top_indices,
                          LAMBDA i : q.domain_filter = None
                                     \/ q.corpus[i].domain = q.domain_filter)
        documents == Prefix(kept, q.n_results)
    IN  [i \in 1..Len(documents) |->
            [content |-> documents[i],
             domain |-> q.corpus[documents[i]].domain,
             bm25_score |-> q.corpus[documents[i]].score,
             source |-> "bm25"]]

Bm25Init ==
    /\ req \in Bm25Requests
    /\ ctx = [results |-> <<>>]
    /\ pc = "start"
    /\ idx = 1
    /\ events = <<>>
    /\ procLog = <<>>
    /\ clock = 1
    /\ cur = None
    /\ calls = 0
    /\ cancelled = FALSE

\* one call of search_bm25
Bm25Search ==
    /\ req.mode = "bm25"
    /\ pc = "start"
    /\ \E order \in ArgsortDescending(req.corpus) :
            ctx' = [results |-> search_bm25(order, req)]
    /\ pc' = "done"
    /\ UNCHANGED <<req, idx, events, procLog, clock, cur, calls, cancelled>>

Bm25Next == Bm25Search

Bm25Spec == Bm25Init /\ [][Bm25Next]_vars

(***************************************************************************)
(* QueryUnderstandingAgent.process on a fresh context, over what the query *)
(* names and what the domain detection answers                             *)
(***************************************************************************)

ActsRequests ==
    [mode : {"acts"}, domain : {None, "traffic"}, verdict : {"yes", "no"},
     recheck : {TRUE}, lang : Languages, llm : {"available"},
     failing : {{}, {"query"}}, store : {"empty"},
     llm_domain : DomainLabels, mentions : SUBSET {"IPC", "BNS"},
     sections : BOOLEAN]

ActsInit ==
    /\ req \in ActsRequests
    /\ ctx = NewContext(req)
    /\ pc = "start"
    /\ idx = 1
    /\ events = <<>>
    /\ procLog = <<>>
    /\ clock = 1
    /\ cur = None
    /\ calls = 0
    /\ cancelled = FALSE

\* QueryUnderstandingAgent.execute on the fresh context
ActsAnalyze ==
    /\ req.mode = "acts"
    /\ pc = "start"
    /\ ctx' = Execute(ctx, "query", req, clock)
    /\ procLog' = Append(procLog, "query")
    /\ clock' = clock + 2
    /\ pc' = "done"
    /\ UNCHANGED <<req, idx, events, cur, calls, cancelled>>

ActsNext == ActsAnalyze

ActsSpec == ActsInit /\ [][ActsNext]_vars

(***************************************************************************)
(* Two requests on the one orchestrator and its agents.  Each request has  *)
(* its own AgentContext, created by its caller; the agents are shared, and *)
(* so is the llm_router attribute that QueryUnderstandingAgent sets on     *)
(* itself.  A request goes through process_query, or its caller runs the   *)
(* first stages in order through BaseAgent.execute.  The variables hold    *)
(* one component per request; cur also holds the shared attribute.  The    *)
(* clock is not advanced: the time of day plays no part in what a stage    *)
(* computes.                                                               *)
(***************************************************************************)

RequestIds == {"A", "B"}

\* Number of stages, from the first on, that the caller of a request runs.
MaxPairStages == 2

PairInputs ==
    {r \in Requests({"unary", "stages"}) :
        /\ r.recheck /\ r.verdict # "error" /\ r.domain # "all"
        /\ r.lang # "ta" /\ r.llm = "available"
        /\ r.failing \in {{}, {"query"}}}

NoCall == [agent |-> None, init |-> FALSE]

\* the context a stage works on: the one its caller passed to execute
\* (base.py:100); the agents keep no context of their own
TargetContext_of_B(x) == "B"

TargetContext(x) == x

\* the request as the analyzer meets it: OllamaService is initialised, and
\* can fail, only in a call that found no llm_router (query_agent.py:61-64)
EffectiveRequest(r, init) ==
    IF init THEN r ELSE [r EXCEPT !.failing = @ \ {"query"}]

PairInit ==
    /\ req \in [RequestIds -> PairInputs]
    /\ ctx = [x \in RequestIds |-> NewContext(req[x])]
    /\ pc = [x \in RequestIds |-> "start"]
    /\ idx = [x \in RequestIds |-> 1]
    /\ events = <<>>
    /\ procLog = [x \in RequestIds |-> <<>>]
    /\ clock = 1
    /\ cur = [x \in RequestIds |-> NoCall] @@ [router |-> FALSE]
    /\ calls = 0
    /\ cancelled = FALSE

\* process_query after `await self._ensure_services()`: the context is created
PairBegin(x) ==
    /\ req[x].mode = "unary"
    /\ pc[x] = "start"
    /\ ctx' = [ctx EXCEPT ![x] = NewContext(req[x])]
    /\ pc' = [pc EXCEPT ![x] = "loop"]
    /\ UNCHANGED <<req, idx, events, procLog, clock, cur, calls, cancelled>>

\* process_query: the guard at the top of an iteration raises or skips
PairGuard(x) ==
    /\ req[x].mode = "unary"
    /\ pc[x] = "loop"
    /\ cur[x].agent = None
    /\ idx[x] <= Len(AgentOrder)
    /\ LET g == RelevanceGuard(ctx[x], AgentOrder[idx[x]])
       IN  /\ g # "run"
           /\ IF g = "raise"
              THEN pc' = [pc EXCEPT ![x] = "raised"] /\ idx' = idx
              ELSE idx' = [idx EXCEPT ![x] = @ + 1] /\ pc' = pc
    /\ UNCHANGED <<req, ctx, events, procLog, clock, cur, calls, cancelled>>

\* agent.execute(context) up to the first await inside process
PairStart(x) ==
    /\ cur[x].agent = None
    /\ IF req[x].mode = "unary"
       THEN /\ pc[x] = "loop"
            /\ idx[x] <= Len(AgentOrder)
            /\ RelevanceGuard(ctx[x], AgentOrder[idx[x]]) = "run"
       ELSE idx[x] <= MaxPairStages
    /\ LET a == AgentOrder[idx[x]]
           t == TargetContext(x)
       IN  /\ ctx' = [ctx EXCEPT ![t] = ExecuteStart(ctx[t], a, clock)]
           /\ cur' = [cur EXCEPT ![x] = [agent |-> a,
                                         init |-> a = "query" /\ ~cur.router]]
    /\ UNCHANGED <<req, pc, idx, events, procLog, clock, calls, cancelled>>

\* agent.execute(context) from that await to its return
PairFinish(x) ==
    /\ cur[x].agent # None
    /\ LET a == cur[x].agent
           r == EffectiveRequest(req[x], cur[x].init)
           t == TargetContext(x)
       IN  /\ ctx' = [ctx EXCEPT ![t] = ExecuteFinish(ctx[t], a, r, clock)]
           /\ cur' = [cur EXCEPT ![x] = NoCall,
                                 !.router = @ \/ (a = "query" /\ "query" \notin r.failing)]
           /\ procLog' = [procLog EXCEPT ![x] = Append(@, cur[x])]
    /\ idx' = [idx EXCEPT ![x] = @ + 1]
    /\ UNCHANGED <<req, pc, events, clock, calls, cancelled>>

PairNext ==
    \E x \in RequestIds : PairBegin(x) \/ PairGuard(x) \/ PairStart(x) \/ PairFinish(x)

PairSpec == PairInit /\ [][PairNext]_vars

(***************************************************************************)
(* Properties                                                              *)
(***************************************************************************)

Count(seq, x) == Cardinality({i \in 1..Len(seq) : seq[i] = x})

CountType(ev, type) == Cardinality({i \in 1..Len(ev) : ev[i].type = type})

\* the request came to an end: a payload was returned or the last chunk was
\* yielded ("done"), or the entry point raised to its caller ("raised")
Ended == pc \in {"done", "raised"}

\* the request is one the domain gate rejects: a named domain, and the
\* analyzer's model answers that the query does not belong to it
GateRejects(r) ==
    /\ r.domain \notin {None, "all"}
    /\ r.verdict = "no"
    /\ "query" \notin r.failing

\* C1: a unary request that the domain gate rejects (QueryAnalyzer leaves
\* is_relevant = false) ends with none of StatuteRetriever, CaseRetriever,
\* RegulatoryFilter, CitationBuilder and Summarizer executed and with the
\* Responder executed exactly once.
C1_RejectedRunsOnlyResponder ==
    (req.mode = "unary" /\ Ended /\ (ctx.is_relevant = "false" \/ GateRejects(req)))
        => /\ Count(procLog, "response") = 1
           /\ \A a \in {"statute", "case", "regulatory", "citation", "summary"} :
                    Count(procLog, a) = 0

\* C3: process_query never raises to its caller: every unary request ends
\* with a returned payload, and every stage that failed on the way has a
\* record in errors.
C3_ProcessQueryNeverRaises ==
    req.mode = "unary"
        => /\ pc # "raised"
           /\ pc = "done" =>
                \A a \in req.failing :
                    Count(procLog, a) > 0 =>
                        \E i \in 1..Len(ctx.errors) : ctx.errors[i].agent = a

\* the record of agent a in the trace
StepOf(c, a) ==
    c.agent_steps[CHOOSE i \in 1..Len(c.agent_steps) : c.agent_steps[i].agent = a]

\* C4: when the process step of a stage raises, execute returns (it does not
\* raise), the stage's trace record has state error, and exactly one error
\* record, for that stage, is appended to errors.
C4_ExecuteContainsFailure ==
    [][(cur # None /\ cur \in req.failing)
        => /\ cur' = None
           /\ Len(ctx'.errors) = Len(ctx.errors) + 1
           /\ SubSeq(ctx'.errors, 1, Len(ctx.errors)) = ctx.errors
           /\ ctx'.errors[Len(ctx'.errors)].agent = cur
           /\ \E i \in 1..Len(ctx'.agent_steps) : ctx'.agent_steps[i].agent = cur
           /\ StepOf(ctx', cur).status = "error"]_vars

\* a failing stage was executed and execute returned
C4_Witness ==
    /\ req.mode = "stages"
    /\ cur = None
    /\ Len(ctx.errors) = 1
    /\ ctx.errors[1].agent \in req.failing
    /\ StepOf(ctx, ctx.errors[1].agent).status = "error"

StatusChunks(ev) == SelectSeq(ev, LAMBDA e : e.type = "agent_status")

\* C7: every streaming request that ends delivered exactly one start chunk
\* first; then, for each of the seven stages in stage order, a processing
\* status followed by a completed or error status of the same stage; then
\* exactly one response and exactly one complete chunk, complete being last.
C7_StreamShape ==
    (req.mode = "stream" /\ Ended)
        => LET st == StatusChunks(events)
               n == Len(events)
           IN  /\ n >= 3
               /\ events[1].type = "start"
               /\ CountType(events, "start") = 1
               /\ Len(st) = 2 * Len(AgentOrder)
               /\ \A i \in 1..Len(AgentOrder) :
                    /\ st[2 * i - 1] = Chunk("agent_status", AgentOrder[i], "processing")
                    /\ st[2 * i].agent = AgentOrder[i]
                    /\ st[2 * i].status \in {"completed", "error"}
               /\ events[n - 1].type = "response"
               /\ events[n].type = "complete"
               /\ CountType(events, "response") = 1
               /\ CountType(events, "complete") = 1

\* stage a is one the request runs: the analyzer and the Responder always,
\* the others unless the gate rejects the query
WouldRun(a, r) == a \in {"query", "response"} \/ ~GateRejects(r)

\* C8: a streaming request in which a stage fails ends with an error status
\* chunk and no completed status chunk for that stage, with the failure in
\* errors, with the Responder run, and with response and complete as its
\* last two chunks.
C8_StreamSurvivesFailure ==
    (req.mode = "stream" /\ Ended)
        => \A a \in req.failing :
            WouldRun(a, req)
                => /\ Chunk("agent_status", a, "error") \in
                        {events[i] : i \in 1..Len(events)}
                   /\ Chunk("agent_status", a, "completed") \notin
                        {events[i] : i \in 1..Len(events)}
                   /\ \E i \in 1..Len(ctx.errors) : ctx.errors[i].agent = a
                   /\ Count(procLog, "response") = 1
                   /\ Len(events) >= 2
                   /\ events[Len(events) - 1].type = "response"
                   /\ events[Len(events)].type = "complete"

\* C9: once a cancellation has arrived the stream carries a terminal
\* cancelled chunk and neither response nor complete, and no stage is run
\* after the cancellation.
C9_CancelledIsAnnounced ==
    cancelled
        => /\ events # <<>>
           /\ events[Len(events)].type = "cancelled"
           /\ CountType(events, "response") = 0
           /\ CountType(events, "complete") = 0

\* C10: when the Responder runs on a context with is_relevant = false, the
\* response is the gate's rejection message, and the secondary response is
\* its translation when the detected language is not English and a
\* translation can be had, the same text otherwise; whatever the state of
\* the Generator.
C10_RejectionIsTheResponse ==
    [][(cur = "response" /\ "response" \notin req.failing /\ ctx.is_relevant = "false")
        => /\ ctx'.response = ctx.rejection_message
           /\ ctx'.response_hi =
                IF ctx.detected_language # "en" /\ req.llm = "available"
                THEN Hindi(ctx.rejection_message)
                ELSE ctx.rejection_message]_vars

\* C11: when the Responder runs on an accepted context (is_relevant = true)
\* with the Generator available, the response is the Generator's output; the
\* template's text is the response only when the Generator is unavailable or
\* its call fails.
C11_AcceptedUsesGenerator ==
    [][(cur = "response" /\ "response" \notin req.failing /\ ctx.is_relevant = "true")
        => /\ req.llm = "available" => ctx'.response = "llm"
           /\ ctx'.response = TemplateResponse.en => req.llm # "available"]_vars

\* the Responder, run on context c, asks the Generator for at least one of
\* the texts it returns
GeneratorCalled(c, r) ==
    /\ r.llm # "unavailable"
    /\ LET g == GenerateLlmResponse(c, [r EXCEPT !.llm = "available"])
       IN  {g.en, g.hi, g.primary}
                \cap {"llm", "llm_en", "llm_hi", "mismatch_hi", "no_connection_hi"} # {}

\* C12: when the Responder runs with no Generator available, or with a
\* Generator whose call fails, it still sets a response, the response is the
\* template's text, and that text carries the notice that AI synthesis was
\* unavailable and the legal disclaimer.
C12_TemplateWhenGeneratorDown ==
    [][(/\ cur = "response"
        /\ "response" \notin req.failing
        /\ \/ req.llm = "unavailable"
           \/ req.llm = "failing" /\ GeneratorCalled(ctx, req))
        => /\ ctx'.response = TemplateResponse.en
           /\ ctx'.response \in NoticeTexts
           /\ ctx'.response \in DisclaimerTexts]_vars

\* C13: after the Responder has run, a context whose detected language is
\* Hindi has a Hindi response and an English secondary response, and a
\* context whose detected language is English has an English response and
\* a Hindi secondary response; on the Generator path and the template path.
C13_LanguageMirroring ==
    [][(cur = "response" /\ "response" \notin req.failing)
        => /\ ctx.detected_language = "hi"
                => /\ TextLanguage(ctx'.response) \in {"hi", "any"}
                   /\ TextLanguage(ctx'.response_hi) \in {"en", "any"}
           /\ ctx.detected_language = "en"
                => /\ TextLanguage(ctx'.response) \in {"en", "any"}
                   /\ TextLanguage(ctx'.response_hi) \in {"hi", "any"}]_vars

\* C14: for a request that names a domain other than "all", QueryAnalyzer
\* accepts the query exactly when the predicted domain is the named one, or
\* the named domain's fused score is above half the top score and above
\* 0.1, or it is above 0.2; otherwise it sets is_relevant = false with a
\* rejection message.
C14_GateThresholds ==
    (req.mode = "gate" /\ pc = "done" /\ "query" \notin req.failing)
        => /\ ctx.is_relevant = "true"
                <=> AcceptByScores(req.predicted_domain, req.domain,
                                   req.selected_score, req.confidence)
           /\ ctx.is_relevant \in {"true", "false"}
           /\ ctx.is_relevant = "false" => ctx.rejection_message # Unset

\* C15: when a step of QueryAnalyzer raises, execute returns with
\* detected_language = en, detected_domain = criminal, applicable_acts =
\* {IPC, BNS} and exactly one more error record.
C15_AnalyzerDefaults ==
    [][(cur = "query" /\ "query" \in req.failing)
        => /\ cur' = None
           /\ ctx'.detected_language = "en"
           /\ ctx'.detected_domain = "criminal"
           /\ ctx'.applicable_acts = {"IPC", "BNS"}
           /\ Len(ctx'.errors) = Len(ctx.errors) + 1]_vars

\* the candidates of the merged list that the search did not return
Dropped ==
    {i \in 1..Len(ctx.merged) : IndexOf(ctx.results, ctx.merged[i].content) = 0}

\* C16 (as stated): with or without the reranker, a finished search returns
\* at most n_results results, and each returned result's fused score is at
\* least the fused score of every candidate that was not returned.
C16_TopKByFusedScore ==
    (req.mode = "search" /\ pc = "done")
        => /\ Len(ctx.results) <= req.n_results
           /\ \A i \in 1..Len(ctx.results) : \A j \in Dropped :
                    ctx.results[i].hybrid_score >= ctx.merged[j].hybrid_score

\* C16 (amended): a finished search returns at most n_results results, each
\* of them a candidate of the merged list.  When the reranker does not
\* score, each returned result's fused score is at least that of every
\* candidate not returned; when it scores, each returned result's rerank
\* score reaches the threshold and is at least the rerank score of every
\* candidate not returned.
C16_TopK ==
    (req.mode = "search" /\ pc = "done")
        => /\ Len(ctx.results) <= req.n_results
           /\ \A i \in 1..Len(ctx.results) :
                    IndexOf(ctx.merged, ctx.results[i].content) # 0
           /\ req.reranker # "on"
                => \A i \in 1..Len(ctx.results) : \A j \in Dropped :
                        ctx.results[i].hybrid_score >= ctx.merged[j].hybrid_score
           /\ req.reranker = "on"
                => \A i \in 1..Len(ctx.results) :
                    /\ ctx.results[i].rerank_score >= req.rerank_threshold
                    /\ \A j \in Dropped :
                        ctx.results[i].rerank_score
                            >= req.rerank_score[ctx.merged[j].content]

\* a scoring reranker returned a result whose fused score is below that of a
\* candidate it dropped
C16_Witness ==
    /\ req.mode = "search"
    /\ pc = "done"
    /\ req.reranker = "on"
    /\ \E i \in 1..Len(ctx.results) : \E j \in Dropped :
            ctx.results[i].hybrid_score < ctx.merged[j].hybrid_score

\* C17: when the reranker scores, the results are in descending order of
\* rerank score, and results with equal rerank scores are in the order they
\* had in the fused candidate list.
C17_RerankOrder ==
    (req.mode = "search" /\ pc = "done" /\ req.reranker = "on")
        => \A i, j \in 1..Len(ctx.results) :
            i < j
                => /\ ctx.results[i].rerank_score >= ctx.results[j].rerank_score
                   /\ ctx.results[i].rerank_score = ctx.results[j].rerank_score
                        => IndexOf(ctx.merged, ctx.results[i].content)
                                < IndexOf(ctx.merged, ctx.results[j].content)

\* the reranker returned two results with equal rerank scores, and moved a
\* candidate ahead of one that preceded it in the fused list
C17_Witness ==
    /\ req.mode = "search"
    /\ pc = "done"
    /\ req.reranker = "on"
    /\ Len(ctx.results) = 2
    /\ ctx.results[1].rerank_score = ctx.results[2].rerank_score
    /\ Len(ctx.merged) = 3
    /\ ctx.results[1].content = ctx.merged[2].content

\* C18: the fused candidate list holds every retrieved content key exactly
\* once and is in descending order of fused score; among candidates of equal
\* fused score those that came from the dense list precede those that came
\* from the sparse list only, each group in its retrieval order.
C18_FusedList ==
    (req.mode = "search" /\ pc \in {"merged", "done"})
        => LET m == ctx.merged
               InDense(d) == IndexOf(req.dense, d) # 0
           IN  /\ {m[i].content : i \in 1..Len(m)}
                    = {req.dense[i].content : i \in 1..Len(req.dense)}
                        \cup {req.sparse[i].content : i \in 1..Len(req.sparse)}
               /\ \A i, j \in 1..Len(m) : m[i].content = m[j].content => i = j
               /\ \A i, j \in 1..Len(m) :
                    i < j
                        => /\ m[i].hybrid_score >= m[j].hybrid_score
                           /\ m[i].hybrid_score = m[j].hybrid_score
                                => /\ InDense(m[j].content) => InDense(m[i].content)
                                   /\ InDense(m[j].content)
                                        => IndexOf(req.dense, m[i].content)
                                            < IndexOf(req.dense, m[j].content)
                                   /\ ~InDense(m[i].content)
                                        => IndexOf(req.sparse, m[i].content)
                                            < IndexOf(req.sparse, m[j].content)

\* a content key retrieved by both lists is merged into one candidate, and a
\* dense candidate and a sparse-only candidate tie on the fused score
C18_Witness ==
    /\ req.mode = "search"
    /\ pc = "merged"
    /\ \E i \in 1..Len(ctx.merged) : ctx.merged[i].source = "hybrid"
    /\ \E i, j \in 1..Len(ctx.merged) :
            /\ i < j
            /\ ctx.merged[i].hybrid_score = ctx.merged[j].hybrid_score
            /\ ctx.merged[i].source = "vector"
            /\ ctx.merged[j].source = "bm25"

\* StatuteRetriever has completed on the context
StatuteCompleted ==
    /\ req.mode = "statutes"
    /\ pc = "done"
    /\ "statute" \notin req.failing

\* C19: after StatuteRetriever has completed, context.statutes holds at most
\* 5 records, whatever the number of section hits, vector-search hits and
\* document hits.
C19_AtMostFiveStatutes ==
    StatuteCompleted => Len(ctx.statutes) <= 5

\* C20: after StatuteRetriever has completed, no two records of
\* context.statutes have the same id; the exact section hits come first, then
\* the hits of the chunk indexes, and keyword-search hits appear only when
\* those two sources gave nothing.
C20_UniqueInOrder ==
    StatuteCompleted
        => LET st == ctx.statutes
               src == StatuteSources(ctx, req)
               direct == src.section_hits
               Kind(i) == st[i].id[1]
           IN  /\ \A i, j \in 1..Len(st) : st[i].id = st[j].id => i = j
               /\ Len(st) >= Len(direct)
               /\ SubSeq(st, 1, Len(direct)) = direct
               /\ \A i, j \in 1..Len(st) :
                    (i < j /\ Kind(i) \in {"vec", "doc"}) => Kind(j) \in {"vec", "doc"}
               /\ (\E i \in 1..Len(st) : Kind(i) = "kw")
                    => /\ direct = <<>>
                       /\ ~src.vector_store
                            \/ (src.semantic_results = <<>> /\ src.doc_results = <<>>)

\* CaseLawAgent has completed on the context
CaseCompleted == req.mode = "cases" /\ pc = "done"

\* the citing cases of the leading statutes, one list after the other
RECURSIVE CitingOfEach(_, _, _)
CitingOfEach(statutes, n, by_section) ==
    IF n = 0 THEN <<>>
    ELSE CitingOfEach(statutes, n - 1, by_section)
         \o (IF SectionOf(statutes[n]) # None
             THEN Prefix(by_section[SectionOf(statutes[n])], 2) ELSE <<>>)

\* a list without the later repetitions of a record
RECURSIVE Once(_)
Once(list) ==
    IF list = <<>> THEN <<>>
    ELSE LET front == Once(SubSeq(list, 1, Len(list) - 1))
             x == list[Len(list)]
         IN  IF \E i \in 1..Len(front) : front[i] = x THEN front ELSE Append(front, x)

IdsOf(list) == {list[i].id : i \in 1..Len(list)}

\* the list the claim describes, from the citing part onwards
CaseListFrom(citing, keyword) ==
    LET part2 == citing \o keyword
        part3 == part2 \o SelectSeq(req.landmark_cases, LAMBDA x : x.id \notin IdsOf(part2))
        part4 == IF req.vector_store
                 THEN part3 \o SelectSeq(req.semantic_cases,
                                         LAMBDA x : x.id \notin IdsOf(part3))
                 ELSE part3
    IN  Prefix(part4, 5)

\* C21 as stated: after CaseRetriever has completed, case_laws is the first 5
\* elements of the concatenation of the citing cases of each of the top 3
\* statutes with a section_number, the keyword matches if that part is empty,
\* the landmark cases whose id is not present yet, and the semantic matches
\* whose id is not present yet.
C21_CaseListAsStated ==
    CaseCompleted
        => LET citing == CitingOfEach(Prefix(req.statutes, 3),
                                      Len(Prefix(req.statutes, 3)), req.by_section)
           IN  ctx.case_laws =
                 CaseListFrom(citing, IF citing = <<>> THEN req.domain_cases ELSE <<>>)

\* C21, amended: the citing cases are taken once each, and the keyword
\* matches are added only if a search domain is resolved and no citing case
\* was found.
C21_CaseList ==
    CaseCompleted
        => LET citing == Once(CitingOfEach(Prefix(req.statutes, 3),
                                           Len(Prefix(req.statutes, 3)), req.by_section))
           IN  ctx.case_laws =
                 CaseListFrom(citing,
                              IF citing = <<>> /\ SearchDomain(ctx) # None
                              THEN req.domain_cases ELSE <<>>)

\* all four sources contribute or are skipped for a reason: a fourth statute
\* is ignored, a landmark case is already present, and the list is cut
C21_Witness ==
    /\ CaseCompleted
    /\ Len(req.statutes) = 4
    /\ SectionOf(req.statutes[4]) # None
    /\ \E i \in 1..Len(req.landmark_cases) : req.landmark_cases[i].id \in
            IdsOf(CitingOfEach(Prefix(req.statutes, 3), 3, req.by_section))
    /\ req.vector_store /\ req.semantic_cases # <<>>
    /\ Len(ctx.case_laws) = 5

\* RegulatoryFilter has completed on the context
RegCompleted == req.mode = "regulatory" /\ pc = "done"

\* out holds the records of inp, each once, with nothing but the score changed
SameRecords(inp, out) ==
    /\ Len(out) = Len(inp)
    /\ \A i \in 1..Len(inp) :
         \E j \in 1..Len(out) :
            /\ out[j].id = i
            /\ \A f \in DOMAIN inp[i] : out[j][f] = inp[i][f]

\* out is in descending order of score, input order kept among equal scores
OrderedBy(out, score(_)) ==
    \A i, j \in 1..Len(out) :
        i < j => \/ score(out[i]) > score(out[j])
                 \/ score(out[i]) = score(out[j]) /\ out[i].id < out[j].id

\* the relevance score as stated, over the act list of each of the eight labels
StatedStatuteScore(s) ==
    (IF s.domain = ctx.jurisdiction THEN 10 ELSE 0)
    + (IF ctx.jurisdiction \in DomainLabels
          /\ s.act_code \in JURISDICTION_ACTS[ctx.jurisdiction] THEN 5 ELSE 0)

StatedCaseScore(k) ==
    (IF k.domain = ctx.jurisdiction THEN 10 ELSE 0) + (IF k.is_landmark THEN 5 ELSE 0)

\* C22: RegulatoryFilter neither adds nor removes statutes or cases; each
\* output list is a permutation of its input, in descending order of the
\* relevance score (+10 domain match, +5 act_code in the domain's act list,
\* +5 is_landmark), records of equal score in their prior order.
C22_StableResort ==
    RegCompleted
        => /\ SameRecords(req.statutes, ctx.statutes)
           /\ SameRecords(req.case_laws, ctx.case_laws)
           /\ OrderedBy(ctx.statutes, StatedStatuteScore)
           /\ OrderedBy(ctx.case_laws, StatedCaseScore)

\* the request of CiteSpec has ended, with or without a failure of the stage
CiteEnded == req.mode = "citations" /\ pc = "done"

\* the url of the n-th citation produced: statutes, then case laws, then
\* mappings, each in context order
ProducedUrl(n) ==
    LET ns == Len(ctx.statutes)
        nc == Len(ctx.case_laws)
    IN  IF n <= ns THEN StatuteUrl(ctx.statutes[n])
        ELSE IF n <= ns + nc THEN CaseUrl(ctx.case_laws[n - ns])
        ELSE MappingCitation(ctx.ipc_bns_mappings[n - ns - nc], n).url

ProducedCount == Len(ctx.statutes) + Len(ctx.case_laws) + Len(ctx.ipc_bns_mappings)

\* C23: at the end of every request the citation list holds no two records
\* with the same url, and the record kept for a url is the first one produced
\* with it, citations being produced for statutes, then case laws, then
\* mappings, each in context order.
C23_UniqueUrlsFirstKept ==
    CiteEnded
        => LET cits == ctx.citations
           IN  /\ \A i, j \in 1..Len(cits) : cits[i].url = cits[j].url => i = j
               /\ \A i \in 1..Len(cits) :
                    /\ cits[i].id \in 1..ProducedCount
                    /\ ProducedUrl(cits[i].id) = cits[i].url
                    /\ \A n \in 1..ProducedCount :
                         ProducedUrl(n) = cits[i].url => cits[i].id <= n
               /\ \A i, j \in 1..Len(cits) : i < j => cits[i].id < cits[j].id
               /\ "citation" \notin req.failing
                    => \A n \in 1..ProducedCount :
                         \E i \in 1..Len(cits) : cits[i].url = ProducedUrl(n)

\* a later citation with the url of an earlier one was produced and dropped
C23_Witness ==
    /\ CiteEnded
    /\ "citation" \notin req.failing
    /\ \E n, m \in 1..ProducedCount :
         /\ n < m
         /\ m <= Len(ctx.statutes) + Len(ctx.case_laws)
         /\ ProducedUrl(n) = ProducedUrl(m)
    /\ Len(ctx.citations) >= 2

\* no two records of the list agree in every field but the id
DistinctItems(list) ==
    \A i, j \in 1..Len(list) :
        (\A f \in DOMAIN list[i] \ {"id"} :
            f \in DOMAIN list[j] /\ list[i][f] = list[j][f])
        /\ DOMAIN list[i] = DOMAIN list[j]
        => i = j

\* C30: URL de-duplication never discards the citation of a distinct source
\* item: distinct statutes, cases and mappings of the context have citations
\* of different urls, so the final list has one citation for each of them.
C30_NoDistinctItemDropped ==
    (/\ CiteEnded
     /\ "citation" \notin req.failing
     /\ DistinctItems(ctx.statutes)
     /\ DistinctItems(ctx.case_laws)
     /\ DistinctItems(ctx.ipc_bns_mappings))
        => /\ Len(ctx.citations) = ProducedCount
           /\ \A n \in 1..ProducedCount : \E i \in 1..Len(ctx.citations) :
                ctx.citations[i].id = n

\* indices of the documents of the filter's domain
InDomain == {i \in 1..Len(req.corpus) : req.corpus[i].domain = req.domain_filter}

\* C25: with a domain filter d, search_bm25(query, n, d) returns the n
\* highest-scoring documents among all indexed documents of domain d (all of
\* them when fewer than n exist), in descending order of score.
C25_TopNWithinDomain ==
    (req.mode = "bm25" /\ pc = "done" /\ req.domain_filter # None)
        => LET res == ctx.results
               returned == {res[i].content : i \in 1..Len(res)}
               want == IF Cardinality(InDomain) < req.n_results
                       THEN Cardinality(InDomain) ELSE req.n_results
           IN  /\ returned \subseteq InDomain
               /\ Len(res) = want
               /\ Cardinality(returned) = Len(res)
               /\ \A i, j \in 1..Len(res) : i < j => res[i].bm25_score >= res[j].bm25_score
               /\ \A i \in returned : \A j \in InDomain \ returned :
                    req.corpus[i].score >= req.corpus[j].score

\* C26: when the resolved domain is not the wildcard, every chunk-index
\* result that StatuteRetriever adds to statutes has the resolved domain as
\* its metadata.domain, also when the domain-filtered index query returns
\* nothing or fails.
C26_ChunksOfResolvedDomain ==
    (StatuteCompleted /\ WhereFilter(DomainFilter(ctx)) # None)
        => \A i \in 1..Len(ctx.statutes) :
                ctx.statutes[i].id[1] \in {"vec", "doc"}
                    => ctx.statutes[i].domain = DomainFilter(ctx)

\* C27: after QueryAnalyzer, applicable_acts is the acts among IPC and BNS
\* that the query mentions, if any; otherwise the fixed act list of the
\* chosen domain, for each of the eight domain labels; and {IPC, BNS} if
\* neither yields an act but at least one section entity was found.
C27_ApplicableActs ==
    (req.mode = "acts" /\ pc = "done" /\ "query" \notin req.failing)
        => LET chosen == ctx.detected_domain
               listed == IF chosen \in DomainLabels THEN JURISDICTION_ACTS[chosen] ELSE {}
           IN  ctx.applicable_acts =
                 IF req.mentions # {} THEN req.mentions
                 ELSE IF listed # {} THEN listed
                 ELSE IF req.sections THEN {"IPC", "BNS"}
                 ELSE {}

\* C28: when a stage's trace record goes from running to completed or
\* error, it keeps the started_at that was set when the stage started, so
\* every completed record carries a start and an end timestamp.
C28_StartedAtKept ==
    req.mode = "stages"
        => \A i \in 1..Len(ctx.agent_steps) :
              LET step == ctx.agent_steps[i]
              IN  /\ step.status \in {"completed", "error"} => step.started_at # NoTime
                  /\ step.status = "completed" => step.completed_at # NoTime

\* what the calls of a log make of the fresh context of request r, alone
RECURSIVE Replay(_, _)
Replay(r, log) ==
    IF log = <<>> THEN NewContext(r)
    ELSE LET e == log[Len(log)]
         IN  ExecuteFinish(ExecuteStart(Replay(r, SubSeq(log, 1, Len(log) - 1)),
                                        e.agent, 1),
                           e.agent, EffectiveRequest(r, e.init), 1)

====
